---- MODULE Spec2Model ----
(***************************************************************************)
(* Cal.com MCP server (src/app.py): the four tools get_api_status,         *)
(* list_event_types, get_bookings and create_booking.  Each tool reads the *)
(* module-level credential, builds one HTTP request, and turns the         *)
(* response, or the exception the HTTP library raises, into its result.    *)
(*                                                                         *)
(* An invocation is split at the one place where it blocks, the HTTP call: *)
(* the Call_* actions run the handler up to the call (pre-checks, headers, *)
(* params or payload), HttpReturns runs it from the call's outcome to its  *)
(* return statement, Deliver hands the result to the caller.               *)
(***************************************************************************)
EXTENDS Integers, Sequences, FiniteSets, TLC

VARIABLES
    CALCOM_API_KEY,     \* the module-level credential (app.py:27)
    jsonErrIsRequestExc,\* installed requests: JSONDecodeError derives RequestException
    pc,                 \* per invocation slot: "idle", "requesting", "done"
    op,                 \* per slot: the tool invoked
    args,               \* per slot: the tool's parameters
    req,                \* per slot: the request handed to requests.get/post
    resp,               \* per slot: the outcome of that HTTP call
    result,             \* per slot: what the invocation gave its caller
    calls               \* per slot: HTTP calls issued by this invocation

vars == <<CALCOM_API_KEY, jsonErrIsRequestExc, pc, op, args, req, resp, result, calls>>

---------------------------------------------------------------------------
(* Bounds *)

\* Concurrent invocation slots of the concurrent specification.
NumProcs == 2
\* At most this many of create_booking's seven optional non-identification
\* parameters are non-null in one invocation.
MaxExtras == 1

Procs == 1..NumProcs

---------------------------------------------------------------------------
(* Python values *)

None == [t |-> "none", v |-> 0]
PyInt(n) == [t |-> "int", v |-> n]
PyStr(s) == [t |-> "str", v |-> s]
PyList(l) == [t |-> "list", v |-> l]
PyDict(d) == [t |-> "dict", v |-> d]
EmptyMap == [k \in {} |-> None]

\* d[k] = val on a dict under construction
Put(m, k, val) == [x \in DOMAIN m \cup {k} |-> IF x = k THEN val ELSE m[x]]

\* Python truth value testing, as used by `if x:` and `not x`
TruthyMutNotNone(x) == x.t # "none"
Truthy(x) ==
    CASE x.t = "none" -> FALSE
      [] x.t = "int"  -> x.v # 0
      [] x.t = "str"  -> x.v # ""
      [] x.t = "list" -> Len(x.v) # 0
      [] x.t = "dict" -> DOMAIN x.v # {}
      [] OTHER        -> TRUE

\* `x is not None`
IsNotNoneMutTruthy(x) == Truthy(x)
IsNotNone(x) == x.t # "none"

\* f"{prefix}{exc}": the text of an exception names its class and, for an
\* HTTPError, the status code.
Fmt(prefix, exc, status) ==
    [t |-> "fstr", v |-> <<prefix, exc, IF exc = "HTTPError" THEN status ELSE 0>>]

---------------------------------------------------------------------------
(* The credential and the pre-checks *)

CALCOM_API_BASE_URL == "https://api.cal.com/v2"

\* os.getenv("CALCOM_API_KEY"): unset, set to the empty string, or a key
KeyValues == {None, PyStr(""), PyStr("cal_live_key")}

\* `if not CALCOM_API_KEY: return {...}` passes
ConfiguredMutNotNone(key) == key.t # "none"
Configured(key) == Truthy(key)

NotConfiguredEnvelope ==
    PyDict([error |-> PyStr("Cal.com API key not configured. Please set the CALCOM_API_KEY environment variable.")])

\* get_api_status's two answers
ApiStatusText(key) ==
    IF Truthy(key)
    THEN PyStr("Cal.com API key is configured.")
    ELSE PyStr("Cal.com API key is NOT configured. Please set the CALCOM_API_KEY environment variable.")

\* create_booking's identification rule passes:
\* not (not event_type_id and not (event_type_slug and (username or team_slug)))
IdentifiedMutSlugOnly(a) == Truthy(a.event_type_id) \/ Truthy(a.event_type_slug)
Identified(a) ==
    ~(~Truthy(a.event_type_id)
      /\ ~(Truthy(a.event_type_slug) /\ (Truthy(a.username) \/ Truthy(a.team_slug))))

ValidationEnvelope ==
    PyDict([error |-> PyStr("Either 'event_type_id' or ('event_type_slug' and 'username'/'team_slug') must be provided.")])

---------------------------------------------------------------------------
(* Request building *)

\* headers of list_event_types and get_bookings
ReadHeaders(key) ==
    [Authorization |-> <<"Bearer ", key.v>>, ContentType |-> "application/json"]

\* headers of create_booking
CreateHeaders(key) ==
    [Authorization |-> <<"Bearer ", key.v>>, ContentType |-> "application/json",
     CalApiVersion |-> "2024-08-13"]

\* get_bookings: params = {} and one `if x is not None: params[k] = x` per input
BookingsParams(a) ==
    LET p0 == EmptyMap
        p1 == IF IsNotNone(a.event_type_id) THEN Put(p0, "eventTypeId", a.event_type_id) ELSE p0
        p2 == IF IsNotNone(a.user_id) THEN Put(p1, "userId", a.user_id) ELSE p1
        p3 == IF IsNotNone(a.status) THEN Put(p2, "status", a.status) ELSE p2
        p4 == IF IsNotNone(a.date_from) THEN Put(p3, "dateFrom", a.date_from) ELSE p3
        p5 == IF IsNotNone(a.date_to) THEN Put(p4, "dateTo", a.date_to) ELSE p4
        p6 == IF IsNotNone(a.limit) THEN Put(p5, "take", a.limit) ELSE p5
    IN  p6

\* create_booking: the initial payload literal
BasePayload(a) ==
    [start |-> a.start_time,
     attendee |-> PyDict([name |-> a.attendee_name, email |-> a.attendee_email,
                          timeZone |-> a.attendee_timezone])]

\* create_booking: the identification branch, `if event_type_id: ... else: ...`
WithIdentificationMutBothOwners(m, a) ==
    IF Truthy(a.event_type_id)
    THEN Put(m, "eventTypeId", a.event_type_id)
    ELSE LET s1 == Put(m, "eventTypeSlug", a.event_type_slug)
             s2 == IF Truthy(a.username) THEN Put(s1, "username", a.username) ELSE s1
             s3 == IF Truthy(a.team_slug) THEN Put(s2, "teamSlug", a.team_slug) ELSE s2
             s4 == IF Truthy(a.organization_slug)
                   THEN Put(s3, "organizationSlug", a.organization_slug) ELSE s3
         IN  s4
WithIdentification(m, a) ==
    IF Truthy(a.event_type_id)
    THEN Put(m, "eventTypeId", a.event_type_id)
    ELSE LET s1 == Put(m, "eventTypeSlug", a.event_type_slug)
             s2 == IF Truthy(a.username) THEN Put(s1, "username", a.username)
                   ELSE IF Truthy(a.team_slug) THEN Put(s1, "teamSlug", a.team_slug)
                   ELSE s1
             s3 == IF Truthy(a.organization_slug)
                   THEN Put(s2, "organizationSlug", a.organization_slug) ELSE s2
         IN  s3

\* create_booking: payload['attendee'][k] = x for the two optional attendee fields
WithAttendeeOptions(m, a) ==
    LET t0 == m["attendee"].v
        t1 == IF Truthy(a.attendee_phone_number)
              THEN Put(t0, "phoneNumber", a.attendee_phone_number) ELSE t0
        t2 == IF Truthy(a.attendee_language)
              THEN Put(t1, "language", a.attendee_language) ELSE t1
    IN  Put(m, "attendee", PyDict(t2))

\* create_booking: the five optional top-level fields
WithOptions(m, a) ==
    LET o1 == IF Truthy(a.guests) THEN Put(m, "guests", a.guests) ELSE m
        o2 == IF Truthy(a.location_input) THEN Put(o1, "location", a.location_input) ELSE o1
        o3 == IF Truthy(a.metadata) THEN Put(o2, "metadata", a.metadata) ELSE o2
        o4 == IF Truthy(a.length_in_minutes)
              THEN Put(o3, "lengthInMinutes", a.length_in_minutes) ELSE o3
        o5 == IF Truthy(a.booking_fields_responses)
              THEN Put(o4, "bookingFieldsResponses", a.booking_fields_responses) ELSE o4
    IN  o5

BookingPayload(a) ==
    WithOptions(WithAttendeeOptions(WithIdentification(BasePayload(a), a), a), a)

NoRequest == [method |-> "", url |-> <<>>, headers |-> EmptyMap, params |-> None, json |-> None]

ListEventTypesRequest(key) ==
    [method |-> "GET", url |-> <<CALCOM_API_BASE_URL, "/event-types">>,
     headers |-> ReadHeaders(key), params |-> None, json |-> None]

GetBookingsRequest(key, a) ==
    [method |-> "GET", url |-> <<CALCOM_API_BASE_URL, "/bookings">>,
     headers |-> ReadHeaders(key), params |-> PyDict(BookingsParams(a)), json |-> None]

CreateBookingRequest(key, a) ==
    [method |-> "POST", url |-> <<CALCOM_API_BASE_URL, "/bookings">>,
     headers |-> CreateHeaders(key), params |-> None, json |-> PyDict(BookingPayload(a))]

\* one call of requests.get / requests.post
IssueMutTwice(n) == n + 2
Issue(n) == n + 1

---------------------------------------------------------------------------
(* The HTTP call's outcome and the handlers' try/except *)

\* Response bodies and what response.json() makes of them
JsonBody == "{\"id\": 7}"
TextBody == "Internal error"
Bodies == {JsonBody, TextBody, ""}

\* response.json(): the decoded body, or no value (the decoder raises)
JsonDecode(text) ==
    CASE text = JsonBody -> [ok |-> TRUE, val |-> PyDict([id |-> PyInt(7)])]
      [] OTHER           -> [ok |-> FALSE, val |-> None]

\* Exceptions requests.get/post raises instead of returning a response
TransportFaults == {"Timeout", "ConnectionError"}

\* An exception of another class raised under the HTTP call
OtherFaults == {"RuntimeError"}

StatusCodes == {200, 201, 202, 204, 400, 404, 500, 503}

\* An outcome of the HTTP call: a response (exc = ""), or an exception
Outcomes ==
    [exc : {""}, status : StatusCodes, text : Bodies]
    \cup [exc : TransportFaults \cup OtherFaults, status : {0}, text : {""}]

\* The outcomes of the concurrent specification
SlimOutcomes ==
    {[exc |-> "", status |-> 200, text |-> JsonBody],
     [exc |-> "", status |-> 200, text |-> TextBody],
     [exc |-> "", status |-> 500, text |-> TextBody],
     [exc |-> "Timeout", status |-> 0, text |-> ""]}

\* `response` before the call has bound it
NoResponse == [exc |-> "UnboundLocalError", status |-> 0, text |-> ""]

\* The classes an exception is an instance of
Bases(exc, jsonIsReq) ==
    CASE exc = "HTTPError"       -> {"HTTPError", "RequestException", "Exception"}
      [] exc = "Timeout"         -> {"Timeout", "RequestException", "Exception"}
      [] exc = "ConnectionError" -> {"ConnectionError", "RequestException", "Exception"}
      [] exc = "JSONDecodeError" ->
            {"JSONDecodeError", "ValueError", "Exception"}
            \cup (IF jsonIsReq THEN {"RequestException"} ELSE {})
      [] OTHER                   -> {exc, "Exception"}

\* What a block of code does: return a value, or raise an exception
Returns(val) == [k |-> "return", val |-> val, exc |-> ""]
Raises(exc) == [k |-> "raise", val |-> None, exc |-> exc]

\* response.raise_for_status() raises HTTPError
RaiseForStatusMutClientOnly(status) == 400 <= status /\ status < 500
RaiseForStatusMutNot200(status) == status # 200
RaiseForStatus(status) == 400 <= status /\ status < 600

\* The body of `try:` from the HTTP call on
TryBody(o) ==
    IF o.exc # "" THEN Raises(o.exc)
    ELSE IF RaiseForStatus(o.status) THEN Raises("HTTPError")
    ELSE LET d == JsonDecode(o.text)
         IN  IF d.ok THEN Returns(d.val) ELSE Raises("JSONDecodeError")

\* The two clauses after `except HTTPError`, shared by the three tools
LaterClauses(exc, jsonIsReq) ==
    IF "RequestException" \in Bases(exc, jsonIsReq)
    THEN Returns(PyDict([error |-> Fmt("Request exception occurred: ", exc, 0)]))
    ELSE IF "Exception" \in Bases(exc, jsonIsReq)
    THEN Returns(PyDict([error |-> Fmt("An unexpected error occurred: ", exc, 0)]))
    ELSE Raises(exc)

\* list_event_types and get_bookings: the except clauses
ReadExcept(exc, o, jsonIsReq) ==
    IF "HTTPError" \in Bases(exc, jsonIsReq)
    THEN Returns(PyDict([error |-> Fmt("HTTP error occurred: ", exc, o.status),
                         status_code |-> PyInt(o.status),
                         response_text |-> PyStr(o.text)]))
    ELSE LaterClauses(exc, jsonIsReq)

\* create_booking: the nested try inside `except HTTPError`:
\* response.json(), `except ValueError:` response.text
ErrorBodyMutNoFallback(o, jsonIsReq) ==
    LET d == JsonDecode(o.text)
    IN  IF d.ok THEN Returns(d.val) ELSE Raises("JSONDecodeError")
ErrorBody(o, jsonIsReq) ==
    LET d == JsonDecode(o.text)
    IN  IF d.ok THEN Returns(d.val)
        ELSE IF "ValueError" \in Bases("JSONDecodeError", jsonIsReq)
        THEN Returns(PyStr(o.text))
        ELSE Raises("JSONDecodeError")

\* create_booking: the except clauses; an exception raised inside a clause
\* leaves the function
CreateExcept(exc, o, jsonIsReq) ==
    IF "HTTPError" \in Bases(exc, jsonIsReq)
    THEN LET b == ErrorBody(o, jsonIsReq)
         IN  IF b.k = "raise" THEN b
             ELSE Returns(PyDict([error |-> Fmt("HTTP error occurred: ", exc, o.status),
                                  status_code |-> PyInt(o.status),
                                  response_text |-> b.val]))
    ELSE LaterClauses(exc, jsonIsReq)

\* The handler from the HTTP call's outcome to its return
Handle(tool, o, jsonIsReq) ==
    LET t == TryBody(o)
    IN  IF t.k = "return" THEN t
        ELSE IF tool = "create_booking" THEN CreateExcept(t.exc, o, jsonIsReq)
        ELSE ReadExcept(t.exc, o, jsonIsReq)

\* `response` is a local of the invocation
responseMutGlobal(p, r) == r[1]
response(p, r) == r[p]

---------------------------------------------------------------------------
(* The tools' parameters *)

DefaultLimit == 20

OptInts == {None, PyInt(0), PyInt(42)}
OptStrs(s) == {None, PyStr(""), PyStr(s)}

GetBookingsArgs ==
    [event_type_id : OptInts,
     user_id : {None, PyInt(0), PyInt(7)},
     status : OptStrs("ACCEPTED"),
     date_from : OptStrs("2023-10-26T10:00:00.000Z"),
     date_to : OptStrs("2023-10-27T10:00:00.000Z"),
     limit : {None, PyInt(0), PyInt(5), PyInt(DefaultLimit)}]

\* create_booking's required parameters and its identification parameters
IdentArgs ==
    [start_time : {PyStr("2024-08-13T09:00:00Z")},
     attendee_name : {PyStr("Ann")},
     attendee_email : {PyStr("ann@example.com")},
     attendee_timezone : {PyStr("America/New_York")},
     event_type_id : OptInts,
     event_type_slug : OptStrs("intro"),
     username : OptStrs("arley"),
     team_slug : OptStrs("sales"),
     organization_slug : {None, PyStr("acme")}]

\* create_booking's optional parameters outside the identification
ExtraParams ==
    {"attendee_phone_number", "attendee_language", "guests", "location_input",
     "metadata", "length_in_minutes", "booking_fields_responses"}

ExtraArgs ==
    {e \in [attendee_phone_number : OptStrs("+15550100"),
            attendee_language : OptStrs("it"),
            guests : {None, PyList(<<>>), PyList(<<"bob@example.com">>)},
            location_input : OptStrs("Cal Video"),
            metadata : {None, PyDict(EmptyMap), PyDict([source |-> "mcp"])},
            length_in_minutes : {None, PyInt(0), PyInt(30)},
            booking_fields_responses : {None, PyDict(EmptyMap), PyDict([notes |-> "hi"])}] :
        Cardinality({k \in ExtraParams : e[k] # None}) <= MaxExtras}

CreateBookingArgs == {i @@ e : i \in IdentArgs, e \in ExtraArgs}

NoExtras ==
    [k \in ExtraParams |-> None]

\* The parameters of the concurrent specification
SlimGetBookingsArgs ==
    {g \in GetBookingsArgs :
        /\ g.event_type_id \in {None, PyInt(42)}
        /\ g.user_id = None /\ g.status = None /\ g.date_from = None /\ g.date_to = None
        /\ g.limit = PyInt(DefaultLimit)}

SlimCreateBookingArgs ==
    {i @@ NoExtras : i \in
        {j \in IdentArgs :
            /\ j.organization_slug = None /\ j.team_slug = None
            /\ \/ j.event_type_id = PyInt(42) /\ j.event_type_slug = None /\ j.username = None
               \/ j.event_type_id = None /\ j.event_type_slug = PyStr("intro")
                  /\ j.username \in {None, PyStr("arley")}}}

NoArgs == EmptyMap

---------------------------------------------------------------------------
(* State machine *)

Init ==
    /\ CALCOM_API_KEY \in KeyValues
    /\ jsonErrIsRequestExc \in BOOLEAN
    /\ pc = [p \in Procs |-> "idle"]
    /\ op = [p \in Procs |-> ""]
    /\ args = [p \in Procs |-> NoArgs]
    /\ req = [p \in Procs |-> NoRequest]
    /\ resp = [p \in Procs |-> NoResponse]
    /\ result = [p \in Procs |-> Returns(None)]
    /\ calls = [p \in Procs |-> 0]

\* The handler returns before any HTTP call
ReturnEarly(p, tool, a, val) ==
    /\ pc' = [pc EXCEPT ![p] = "done"]
    /\ op' = [op EXCEPT ![p] = tool]
    /\ args' = [args EXCEPT ![p] = a]
    /\ result' = [result EXCEPT ![p] = Returns(val)]
    /\ UNCHANGED <<CALCOM_API_KEY, jsonErrIsRequestExc, req, resp, calls>>

\* The handler reaches requests.get / requests.post
StartRequest(p, tool, a, r) ==
    /\ pc' = [pc EXCEPT ![p] = "requesting"]
    /\ op' = [op EXCEPT ![p] = tool]
    /\ args' = [args EXCEPT ![p] = a]
    /\ req' = [req EXCEPT ![p] = r]
    /\ calls' = [calls EXCEPT ![p] = Issue(calls[p])]
    /\ UNCHANGED <<CALCOM_API_KEY, jsonErrIsRequestExc, resp, result>>

get_api_status(p) ==
    /\ pc[p] = "idle"
    /\ ReturnEarly(p, "get_api_status", NoArgs, ApiStatusText(CALCOM_API_KEY))

list_event_types(p) ==
    /\ pc[p] = "idle"
    /\ IF ~Configured(CALCOM_API_KEY)
       THEN ReturnEarly(p, "list_event_types", NoArgs, NotConfiguredEnvelope)
       ELSE StartRequest(p, "list_event_types", NoArgs,
                         ListEventTypesRequest(CALCOM_API_KEY))

get_bookings(p, A) ==
    /\ pc[p] = "idle"
    /\ \E a \in A :
        IF ~Configured(CALCOM_API_KEY)
        THEN ReturnEarly(p, "get_bookings", a, NotConfiguredEnvelope)
        ELSE StartRequest(p, "get_bookings", a, GetBookingsRequest(CALCOM_API_KEY, a))

create_booking(p, A) ==
    /\ pc[p] = "idle"
    /\ \E a \in A :
        IF ~Configured(CALCOM_API_KEY)
        THEN ReturnEarly(p, "create_booking", a, NotConfiguredEnvelope)
        ELSE IF ~Identified(a)
        THEN ReturnEarly(p, "create_booking", a, ValidationEnvelope)
        ELSE StartRequest(p, "create_booking", a, CreateBookingRequest(CALCOM_API_KEY, a))

\* The HTTP call returns or raises; the handler runs to its return
HttpReturns(p, O) ==
    /\ pc[p] = "requesting"
    /\ \E o \in O :
        /\ resp' = [resp EXCEPT ![p] = o]
        /\ result' = [result EXCEPT ![p] =
                         Handle(op[p], response(p, resp'), jsonErrIsRequestExc)]
    /\ pc' = [pc EXCEPT ![p] = "done"]
    /\ UNCHANGED <<CALCOM_API_KEY, jsonErrIsRequestExc, op, args, req, calls>>

\* The caller has the result; the slot is free for the next invocation
Deliver(p) ==
    /\ pc[p] = "done"
    /\ pc' = [pc EXCEPT ![p] = "idle"]
    /\ op' = [op EXCEPT ![p] = ""]
    /\ args' = [args EXCEPT ![p] = NoArgs]
    /\ req' = [req EXCEPT ![p] = NoRequest]
    /\ resp' = [resp EXCEPT ![p] = NoResponse]
    /\ result' = [result EXCEPT ![p] = Returns(None)]
    /\ calls' = [calls EXCEPT ![p] = 0]
    /\ UNCHANGED <<CALCOM_API_KEY, jsonErrIsRequestExc>>

\* One invocation at a time, over the full parameter sets
Next ==
    \/ get_api_status(1)
    \/ list_event_types(1)
    \/ get_bookings(1, GetBookingsArgs)
    \/ create_booking(1, CreateBookingArgs)
    \/ HttpReturns(1, Outcomes)
    \/ Deliver(1)

Spec == Init /\ [][Next]_vars

\* Invocations interleaved on every slot
NextConc ==
    \E p \in Procs :
        \/ get_api_status(p)
        \/ list_event_types(p)
        \/ get_bookings(p, SlimGetBookingsArgs)
        \/ create_booking(p, SlimCreateBookingArgs)
        \/ HttpReturns(p, SlimOutcomes)
        \/ Deliver(p)

SpecConc == Init /\ [][NextConc]_vars

---------------------------------------------------------------------------
(* Vocabulary of the properties *)

NetworkTools == {"list_event_types", "get_bookings", "create_booking"}

\* The credential is unset or empty
KeyAbsent == CALCOM_API_KEY \in {None, PyStr("")}

\* A parameter value that is null, and one that is empty or zero
IsNull(x) == x = None
EmptyOrZero(x) == x \in {PyInt(0), PyStr(""), PyList(<<>>), PyDict(EmptyMap)}
Meaningful(x) == ~IsNull(x) /\ ~EmptyOrZero(x)

\* The slot's invocation has issued its request
Sent(p) == pc[p] \in {"requesting", "done"} /\ req[p] # NoRequest

\* The slot's invocation has returned after an HTTP response (not a fault)
Answered(p) == pc[p] = "done" /\ op[p] \in NetworkTools /\ resp[p].exc = ""

\* Keys and value of a returned mapping
IsMapping(r) == r.k = "return" /\ r.val.t = "dict"
Keys(r) == DOMAIN r.val.v

\* C1: with CALCOM_API_KEY unset or empty, every invocation of
\* list_event_types, get_bookings and create_booking, whatever its
\* parameters, returns the "API key not configured" error envelope, and no
\* HTTP request is issued during it.
C1_NoKeyNoRequest ==
    KeyAbsent =>
        \A p \in Procs :
            /\ pc[p] # "requesting"
            /\ calls[p] = 0
            /\ req[p] = NoRequest
            /\ (pc[p] = "done" /\ op[p] \in NetworkTools) =>
                   /\ IsMapping(result[p])
                   /\ Keys(result[p]) = {"error"}
                   /\ result[p].val.v.error =
                          PyStr("Cal.com API key not configured. Please set the CALCOM_API_KEY environment variable.")

\* create_booking returned without a key although its parameters also break
\* the identification rule
C1_Witness ==
    /\ KeyAbsent
    /\ pc[1] = "done" /\ op[1] = "create_booking"
    /\ IsNull(args[1].event_type_id) /\ IsNull(args[1].event_type_slug)
    /\ result[1].val.v.error # ValidationEnvelope.v.error

\* The parameters set neither event_type_id nor event_type_slug together
\* with username or team_slug
Unidentified(a) ==
    /\ IsNull(a.event_type_id)
    /\ \/ IsNull(a.event_type_slug)
       \/ IsNull(a.username) /\ IsNull(a.team_slug)

\* C2: with the credential present, create_booking with parameters that set
\* neither event_type_id nor (event_type_slug with username or team_slug)
\* returns the validation error envelope and issues no HTTP request.
C2_ValidationBeforeNetwork ==
    ~KeyAbsent =>
        \A p \in Procs :
            (pc[p] # "idle" /\ op[p] = "create_booking" /\ Unidentified(args[p])) =>
                /\ pc[p] = "done"
                /\ calls[p] = 0
                /\ req[p] = NoRequest
                /\ IsMapping(result[p])
                /\ Keys(result[p]) = {"error"}
                /\ result[p].val.v.error =
                       PyStr("Either 'event_type_id' or ('event_type_slug' and 'username'/'team_slug') must be provided.")

\* A slug without username or team_slug was rejected
C2_Witness ==
    /\ ~KeyAbsent
    /\ pc[1] = "done" /\ op[1] = "create_booking"
    /\ IsNull(args[1].event_type_id) /\ ~IsNull(args[1].event_type_slug)
    /\ IsNull(args[1].username) /\ IsNull(args[1].team_slug)
    /\ calls[1] = 0

\* What response_text holds for a response body: the raw text for the read
\* tools; for create_booking the parsed JSON, or the raw text when the body
\* is not JSON
ExpectedResponseText(tool, text) ==
    IF tool = "create_booking" /\ text = "{\"id\": 7}"
    THEN PyDict([id |-> PyInt(7)])
    ELSE PyStr(text)

\* The slot's result is the HTTP error envelope of its response
IsHttpErrorEnvelope(p) ==
    /\ IsMapping(result[p])
    /\ Keys(result[p]) = {"error", "status_code", "response_text"}
    /\ result[p].val.v.status_code = PyInt(resp[p].status)
    /\ result[p].val.v.response_text = ExpectedResponseText(op[p], resp[p].text)

\* C3 as stated: whenever the response's status is other than 200 or 201,
\* the tool returns an error envelope with error, status_code and
\* response_text, never the body as a success result.
C3_Original ==
    \A p \in Procs :
        (Answered(p) /\ resp[p].status \notin {200, 201}) => IsHttpErrorEnvelope(p)

\* C3 amended: whenever the response's status is a 4xx or 5xx code, the tool
\* returns an error envelope with error, status_code equal to the status and
\* response_text holding the body (raw text for the read tools; parsed JSON
\* or else raw text for create_booking), never the body as a success result.
C3_HttpErrorEnvelope ==
    \A p \in Procs :
        (Answered(p) /\ resp[p].status >= 400 /\ resp[p].status <= 599) =>
            /\ IsHttpErrorEnvelope(p)
            /\ result[p].val # PyDict([id |-> PyInt(7)])

\* create_booking got a 500 with a JSON body and reported it parsed
C3_Witness ==
    /\ Answered(1) /\ op[1] = "create_booking"
    /\ resp[1].status = 500 /\ resp[1].text = "{\"id\": 7}"
    /\ result[1].val.v.response_text = PyDict([id |-> PyInt(7)])

\* C4: when the response has status 200 or 201 and a body that parses as
\* JSON, the tool's result is the decoded body, nothing added, removed or
\* changed.
C4_PassThrough ==
    \A p \in Procs :
        (Answered(p) /\ resp[p].status \in {200, 201} /\ resp[p].text = "{\"id\": 7}") =>
            result[p] = [k |-> "return", val |-> PyDict([id |-> PyInt(7)]), exc |-> ""]

\* create_booking got 201 {"id": 7} and returned {"id": 7}
C4_Witness ==
    /\ Answered(1) /\ op[1] = "create_booking"
    /\ resp[1].status = 201 /\ resp[1].text = "{\"id\": 7}"
    /\ Keys(result[1]) = {"id"}

\* get_bookings' inputs and the query keys they are sent as
QueryKey ==
    [event_type_id |-> "eventTypeId", user_id |-> "userId", status |-> "status",
     date_from |-> "dateFrom", date_to |-> "dateTo", limit |-> "take"]

\* C5: with the credential present, the query parameters get_bookings sends
\* hold exactly one key per non-null input, renamed, with the input's value
\* unchanged, and no other key; get_bookings(event_type_id=42, limit=5)
\* sends exactly {eventTypeId: 42, take: 5}.
C5_QueryParams ==
    \A p \in Procs :
        (Sent(p) /\ op[p] = "get_bookings") =>
            LET a == args[p]
                q == req[p].params
                given == {n \in DOMAIN QueryKey : ~IsNull(a[n])}
            IN  /\ q.t = "dict"
                /\ DOMAIN q.v = {QueryKey[n] : n \in given}
                /\ \A n \in given : q.v[QueryKey[n]] = a[n]
                /\ (a = [event_type_id |-> PyInt(42), user_id |-> None, status |-> None,
                         date_from |-> None, date_to |-> None, limit |-> PyInt(5)])
                       => q.v = [eventTypeId |-> PyInt(42), take |-> PyInt(5)]

\* get_bookings(user_id=0, limit=5) was sent with userId 0 in the query
C5_Witness ==
    /\ Sent(1) /\ op[1] = "get_bookings"
    /\ args[1].user_id = PyInt(0) /\ args[1].limit = PyInt(5)
    /\ IsNull(args[1].event_type_id) /\ IsNull(args[1].status)
    /\ req[1].params.v = [userId |-> PyInt(0), take |-> PyInt(5)]

\* A payload field that is not sent
Absent == [t |-> "absent", v |-> 0]

\* What the payload holds for one of create_booking's optional parameters
SentAs(pl, n) ==
    CASE n = "attendee_phone_number" ->
            IF "phoneNumber" \in DOMAIN pl.attendee.v THEN pl.attendee.v.phoneNumber ELSE Absent
      [] n = "attendee_language" ->
            IF "language" \in DOMAIN pl.attendee.v THEN pl.attendee.v.language ELSE Absent
      [] n = "guests" -> IF "guests" \in DOMAIN pl THEN pl.guests ELSE Absent
      [] n = "location_input" -> IF "location" \in DOMAIN pl THEN pl.location ELSE Absent
      [] n = "metadata" -> IF "metadata" \in DOMAIN pl THEN pl.metadata ELSE Absent
      [] n = "length_in_minutes" ->
            IF "lengthInMinutes" \in DOMAIN pl THEN pl.lengthInMinutes ELSE Absent
      [] n = "booking_fields_responses" ->
            IF "bookingFieldsResponses" \in DOMAIN pl THEN pl.bookingFieldsResponses ELSE Absent

OptionalParams ==
    {"guests", "location_input", "metadata", "length_in_minutes",
     "booking_fields_responses", "attendee_phone_number", "attendee_language"}

\* C6 as stated: in every request create_booking sends, each of the seven
\* optional parameters appears in the payload, under its key and with its
\* value unchanged, if and only if it is non-null.
C6_Original ==
    \A p \in Procs :
        (Sent(p) /\ op[p] = "create_booking") =>
            \A n \in OptionalParams :
                SentAs(req[p].json.v, n) =
                    IF ~IsNull(args[p][n]) THEN args[p][n] ELSE Absent

\* C6 amended: each of the seven optional parameters appears in the payload,
\* under its key and with its value unchanged, if and only if it is non-null
\* and neither empty (string, list, mapping) nor zero; a null one is never
\* sent, and a non-empty, non-zero one is never dropped.
C6_OptionalFields ==
    \A p \in Procs :
        (Sent(p) /\ op[p] = "create_booking") =>
            \A n \in OptionalParams :
                SentAs(req[p].json.v, n) =
                    IF Meaningful(args[p][n]) THEN args[p][n] ELSE Absent

\* create_booking sent a request for parameters with an empty guests list,
\* and the payload has no guests key
C6_Witness ==
    /\ Sent(1) /\ op[1] = "create_booking"
    /\ args[1].guests = PyList(<<>>)
    /\ "guests" \notin DOMAIN req[1].json.v

\* The identification keys of a payload
IdKeys(pl) == DOMAIN pl \cap {"eventTypeId", "eventTypeSlug", "username", "teamSlug", "organizationSlug"}

\* The payload names the event type by id, or by slug with exactly one owner
ByIdOnly(pl) ==
    /\ "eventTypeId" \in DOMAIN pl
    /\ "eventTypeSlug" \notin DOMAIN pl
ByOwnedSlugOnly(pl) ==
    /\ "eventTypeId" \notin DOMAIN pl
    /\ "eventTypeSlug" \in DOMAIN pl
    /\ ("username" \in DOMAIN pl) # ("teamSlug" \in DOMAIN pl)
OneIdentification(pl) == ByIdOnly(pl) # ByOwnedSlugOnly(pl)

\* C10 as stated: every payload identifies the event type in exactly one
\* way; when event_type_id is given (non-null) the four slug keys are
\* omitted; when username and team_slug are both given with a slug, only
\* username is sent.
C10_Original ==
    \A p \in Procs :
        (Sent(p) /\ op[p] = "create_booking") =>
            LET a == args[p]
                pl == req[p].json.v
            IN  /\ OneIdentification(pl)
                /\ ~IsNull(a.event_type_id) => IdKeys(pl) = {"eventTypeId"}
                /\ (IsNull(a.event_type_id) /\ ~IsNull(a.event_type_slug)
                    /\ ~IsNull(a.username) /\ ~IsNull(a.team_slug)) =>
                       ("username" \in DOMAIN pl /\ "teamSlug" \notin DOMAIN pl)

\* C10 amended: every payload identifies the event type in exactly one way,
\* by eventTypeId or by eventTypeSlug with exactly one of username and
\* teamSlug; when event_type_id is given and not zero, the four slug keys
\* are omitted even if supplied; when event_type_id is absent or zero and
\* username and team_slug are both given and non-empty with a slug, only
\* username is sent.
C10_OneIdentification ==
    \A p \in Procs :
        (Sent(p) /\ op[p] = "create_booking") =>
            LET a == args[p]
                pl == req[p].json.v
            IN  /\ OneIdentification(pl)
                /\ Meaningful(a.event_type_id) =>
                       /\ IdKeys(pl) = {"eventTypeId"}
                       /\ pl.eventTypeId = a.event_type_id
                /\ (~Meaningful(a.event_type_id)
                    /\ Meaningful(a.username) /\ Meaningful(a.team_slug)) =>
                       /\ IdKeys(pl) \ {"organizationSlug"} = {"eventTypeSlug", "username"}
                       /\ pl.eventTypeSlug = a.event_type_slug
                       /\ pl.username = a.username

\* A request was sent for a slug with both username and team_slug
C10_Witness ==
    /\ Sent(1) /\ op[1] = "create_booking"
    /\ IsNull(args[1].event_type_id)
    /\ Meaningful(args[1].event_type_slug)
    /\ Meaningful(args[1].username) /\ Meaningful(args[1].team_slug)
    /\ "teamSlug" \notin DOMAIN req[1].json.v

\* C7: no invocation raises to its caller: whatever the parameters and the
\* outcome of the HTTP call, the tool returns a value, and after a transport
\* fault that value is an error envelope with an error message.
C7_NeverRaises ==
    \A p \in Procs :
        pc[p] = "done" =>
            /\ result[p].k = "return"
            /\ resp[p].exc \in {"Timeout", "ConnectionError"} =>
                   /\ IsMapping(result[p])
                   /\ "error" \in Keys(result[p])
                   /\ result[p].val.v.error.t = "fstr"

\* create_booking returned an envelope for an error response whose body is
\* not JSON
C7_Witness ==
    /\ Answered(1) /\ op[1] = "create_booking"
    /\ resp[1].status = 404 /\ resp[1].text = "Internal error"
    /\ result[1].k = "return"
    /\ result[1].val.v.response_text = PyStr("Internal error")

\* The invocation's parameters pass the handler's pre-checks
PassesPreChecks(p) ==
    /\ ~KeyAbsent
    /\ op[p] \in NetworkTools
    /\ op[p] = "create_booking" =>
           \/ Meaningful(args[p].event_type_id)
           \/ /\ Meaningful(args[p].event_type_slug)
              /\ Meaningful(args[p].username) \/ Meaningful(args[p].team_slug)

\* C8: every invocation that passes its pre-checks issues exactly one HTTP
\* request before it returns, whatever the response or fault: it is never
\* repeated after a failure, and no result is returned without it.
C8_ExactlyOneRequest ==
    \A p \in Procs :
        /\ pc[p] = "requesting" => calls[p] = 1
        /\ (pc[p] = "done" /\ PassesPreChecks(p)) =>
               /\ calls[p] = 1
               /\ req[p] # NoRequest
               /\ resp[p] # NoResponse

\* An invocation returned after a timeout with one request issued
C8_Witness ==
    /\ pc[1] = "done" /\ PassesPreChecks(1)
    /\ resp[1].exc = "Timeout"
    /\ calls[1] = 1

\* Two invocations of the same tool with the same parameters send the same
\* request, and with the same outcome of their HTTP calls return the same
\* result
SameInSameOut ==
    \A p, q \in Procs :
        (pc[p] # "idle" /\ pc[q] # "idle" /\ op[p] = op[q] /\ args[p] = args[q]) =>
            /\ req[p] = req[q]
            /\ (pc[p] = "done" /\ pc[q] = "done" /\ resp[p] = resp[q]) =>
                   result[p] = result[q]

\* C9: under any interleaving of concurrent invocations the credential is
\* never modified after startup, and two invocations of the same tool with
\* the same parameters that get the same remote response return identical
\* envelopes.
C9_Independent ==
    /\ []SameInSameOut
    /\ [][CALCOM_API_KEY' = CALCOM_API_KEY]_vars

\* Two concurrent list_event_types invocations got the same response and
\* returned the same envelope
C9_Witness ==
    /\ pc[1] = "done" /\ pc[2] = "done"
    /\ op[1] = "list_event_types" /\ op[2] = "list_event_types"
    /\ resp[1].exc = "" /\ resp[1] = resp[2]
    /\ result[1] = result[2]

====
